---- MODULE Spec2Model ----
(***************************************************************************)
(* A model of bentoml/_internal/utils/formparser.py: the multipart         *)
(* request parser (MultiPartParser.parse), the request splitter            *)
(* (populate_multipart_requests) and the response merger                   *)
(* (concat_to_multipart_responses).                                        *)
(*                                                                         *)
(* A byte is a one-character string, a bytes object a sequence of bytes;   *)
(* a dict is a sequence of <<key, value>> pairs with distinct keys, in     *)
(* insertion order.                                                        *)
(***************************************************************************)
EXTENDS Integers, Sequences, FiniteSets, TLC

\* ------------------------------------------------------------------ bounds

\* The most parts a request body is made of.
MaxParts == 2
\* The largest chunk the stream delivers, but for the single chunk that
\* holds the whole body.
MaxChunk == 3
\* The most responses handed to concat_to_multipart_responses.
MaxResponses == 2

\* ------------------------------------------------------------------- bytes

\* None, told from every bytes object
None == <<"None">>
\* No mark is set.
NoMark == "none"
CR == "\r"
LF == "\n"
HYPHEN == "-"
COLON == ":"
SPACE == " "
SEMI == ";"
EQUALS == "="
QUOTE == "\""

UpperToLower ==
    [c \in {"A", "B", "C", "D", "E", "F", "G", "H", "I", "J", "K", "L", "M",
            "N", "O", "P", "Q", "R", "S", "T", "U", "V", "W", "X", "Y", "Z"} |->
        CASE c = "A" -> "a" [] c = "B" -> "b" [] c = "C" -> "c" [] c = "D" -> "d"
          [] c = "E" -> "e" [] c = "F" -> "f" [] c = "G" -> "g" [] c = "H" -> "h"
          [] c = "I" -> "i" [] c = "J" -> "j" [] c = "K" -> "k" [] c = "L" -> "l"
          [] c = "M" -> "m" [] c = "N" -> "n" [] c = "O" -> "o" [] c = "P" -> "p"
          [] c = "Q" -> "q" [] c = "R" -> "r" [] c = "S" -> "s" [] c = "T" -> "t"
          [] c = "U" -> "u" [] c = "V" -> "v" [] c = "W" -> "w" [] c = "X" -> "x"
          [] c = "Y" -> "y" [] c = "Z" -> "z"]

LowerLetters == {UpperToLower[c] : c \in DOMAIN UpperToLower}

\* bytes.lower(), one byte
LowerChar(c) == IF c \in DOMAIN UpperToLower THEN UpperToLower[c] ELSE c

\* bytes.lower()
Lower(b) == [i \in 1..Len(b) |-> LowerChar(b[i])]

\* The index of the first c in b, 0 when there is none.
Find(b, c, i) ==
    LET at == {j \in i..Len(b) : b[j] = c}
    IN IF at = {} THEN 0 ELSE CHOOSE j \in at : \A k \in at : j <= k

\* b[i:] of Python, i counted from 0
From(b, i) == SubSeq(b, i + 1, Len(b))

RECURSIVE LStrip(_)
LStrip(b) == IF b # <<>> /\ b[1] = SPACE THEN LStrip(Tail(b)) ELSE b

RECURSIVE RStrip(_)
RStrip(b) ==
    IF b # <<>> /\ b[Len(b)] = SPACE THEN RStrip(SubSeq(b, 1, Len(b) - 1)) ELSE b

\* bytes.strip(), of spaces
Strip(b) == RStrip(LStrip(b))

\* ------------------------------------------------------------------- dicts

RECURSIVE DictIndex(_, _, _)
DictIndex(d, k, i) ==
    IF i > Len(d) THEN 0
    ELSE IF d[i][1] = k THEN i
    ELSE DictIndex(d, k, i + 1)

DictHas(d, k) == DictIndex(d, k, 1) # 0

\* d[k], for a key d has
DictGet(d, k) == d[DictIndex(d, k, 1)][2]

DictKeys(d) == {d[i][1] : i \in 1..Len(d)}

\* d[k] = v: a key d has keeps its place and takes the value, a new key is
\* appended
DictSet(d, k, v) ==
    IF DictHas(d, k)
    THEN [d EXCEPT ![DictIndex(d, k, 1)] = <<k, v>>]
    ELSE Append(d, <<k, v>>)

\* dict(pairs), of a list of (key, value) pairs
RECURSIVE DictOf(_)
DictOf(pairs) ==
    IF pairs = <<>> THEN <<>>
    ELSE LET p == pairs[Len(pairs)]
         IN DictSet(DictOf(SubSeq(pairs, 1, Len(pairs) - 1)), p[1], p[2])

\* d.update(e)
RECURSIVE DictUpdate(_, _)
DictUpdate(d, e) ==
    IF e = <<>> THEN d
    ELSE DictUpdate(DictSet(d, e[1][1], e[1][2]), Tail(e))

\* -------------------------------------------- multipart.parse_options_header

\* b.split(c): the pieces of b between the occurrences of c
RECURSIVE Split(_, _)
Split(b, c) ==
    LET i == Find(b, c, 1)
    IN IF i = 0 THEN <<b>>
       ELSE <<SubSeq(b, 1, i - 1)>> \o Split(From(b, i), c)

\* A quoted value loses its quotes.
Unquote(v) ==
    IF Len(v) >= 2 /\ v[1] = QUOTE /\ v[Len(v)] = QUOTE
    THEN SubSeq(v, 2, Len(v) - 1)
    ELSE v

\* The options of "; key=value; key=value": the keys lower-cased, a later
\* option of a key replacing an earlier one; a piece without "=" or without
\* a key or a value is no option.
RECURSIVE OptionsOf(_)
OptionsOf(pieces) ==
    IF pieces = <<>> THEN <<>>
    ELSE LET rest == OptionsOf(SubSeq(pieces, 1, Len(pieces) - 1))
             piece == pieces[Len(pieces)]
             eq == Find(piece, EQUALS, 1)
             key == Lower(Strip(SubSeq(piece, 1, eq - 1)))
             val == Strip(From(piece, eq))
         IN IF eq = 0 \/ key = <<>> \/ val = <<>> THEN rest
            ELSE DictSet(rest, key, Unquote(val))

\* multipart.parse_options_header(value): <<content type, options>>
parse_options_header(value) ==
    IF value = None \/ value = <<>> THEN <<(<<>>), (<<>>)>>
    ELSE LET semi == Find(value, SEMI, 1)
         IN IF semi = 0 THEN <<Strip(Lower(value)), (<<>>)>>
            ELSE <<Strip(Lower(SubSeq(value, 1, semi - 1))),
                   OptionsOf(Split(From(value, semi), SEMI))>>

\* ---------------------------------------------- MultiPartParser's callbacks

\* Each callback appends one (message type, bytes) message to self.messages.
on_part_begin(msgs) == Append(msgs, <<"PART_BEGIN", <<>>>>)

on_part_data(msgs, bytes) == Append(msgs, <<"PART_DATA", bytes>>)

on_part_end(msgs) == Append(msgs, <<"PART_END", <<>>>>)

on_header_field(msgs, bytes) == Append(msgs, <<"HEADER_FIELD", bytes>>)

on_header_value(msgs, bytes) == Append(msgs, <<"HEADER_VALUE", bytes>>)

on_header_end(msgs) == Append(msgs, <<"HEADER_END", <<>>>>)

on_headers_finished(msgs) == Append(msgs, <<"HEADERS_FINISHED", <<>>>>)

on_end(msgs) == Append(msgs, <<"END", <<>>>>)

\* -------------------------------------------- multipart.MultipartParser
\* The event decoder: a state machine over the bytes of the body, fed one
\* chunk at a time. Its record holds
\*   state, index, flags   the position in the grammar and in the boundary,
\*   lookbehind            the bytes of a boundary matched so far,
\*   mark, acc             the kind of data being collected (NoMark when none)
\*                         and the bytes of it seen in the current chunk,
\*   messages              self.messages of the MultiPartParser it calls back,
\*   error                 TRUE once it has raised MultipartParseError.

\* multipart.MultipartParser(boundary, callbacks)
MultipartParser(boundary) ==
    [state |-> "START", index |-> 0, flags |-> {}, lookbehind |-> <<>>,
     mark |-> NoMark, acc |-> <<>>,
     boundary |-> <<CR, LF, HYPHEN, HYPHEN>> \o boundary,
     messages |-> <<>>, error |-> FALSE]

\* raise MultipartParseError
Fail(w) == [w EXCEPT !.error = TRUE]

\* A callback without data.
Callback(w, name) ==
    [w EXCEPT !.messages =
        CASE name = "part_begin" -> on_part_begin(@)
          [] name = "part_end" -> on_part_end(@)
          [] name = "header_end" -> on_header_end(@)
          [] name = "headers_finished" -> on_headers_finished(@)
          [] name = "end" -> on_end(@)]

\* A callback with data: none is made for no bytes.
CallbackData(w, name, bytes) ==
    IF bytes = <<>> THEN w
    ELSE [w EXCEPT !.messages =
            CASE name = "header_field" -> on_header_field(@, bytes)
              [] name = "header_value" -> on_header_value(@, bytes)
              [] name = "part_data" -> on_part_data(@, bytes)]

SetMark(w, name) == [w EXCEPT !.mark = name, !.acc = <<>>]

DeleteMark(w) == [w EXCEPT !.mark = NoMark, !.acc = <<>>]

\* The data collected since the mark is called back and the mark removed.
DataCallback(w, name) ==
    IF w.mark = name THEN DeleteMark(CallbackData(w, name, w.acc)) ELSE w

\* At the end of a chunk: the data collected so far is called back and the
\* mark kept for the next chunk.
DataCallbackRemaining(w) ==
    IF w.mark = NoMark THEN w
    ELSE [CallbackData(w, w.mark, w.acc) EXCEPT !.acc = <<>>]

\* One byte of part data, with the boundary matched up to w.index.
PartDataByte(w, c) ==
    LET blen == Len(w.boundary)
    IN IF w.index < blen THEN
           IF w.boundary[w.index + 1] = c
           THEN [(IF w.index = 0 THEN DataCallback(w, "part_data") ELSE w)
                    EXCEPT !.index = @ + 1]
           ELSE [w EXCEPT !.index = 0]
       ELSE IF w.index = blen THEN
           IF c = CR
           THEN [w EXCEPT !.index = @ + 1, !.flags = @ \cup {"PART_BOUNDARY"}]
           ELSE IF c = HYPHEN
           THEN [w EXCEPT !.index = @ + 1, !.flags = @ \cup {"LAST_BOUNDARY"}]
           ELSE [w EXCEPT !.index = 0]
       ELSE IF "PART_BOUNDARY" \in w.flags THEN
           IF c = LF
           THEN [Callback(Callback(w, "part_end"), "part_begin")
                    EXCEPT !.flags = @ \ {"PART_BOUNDARY"}, !.index = 0,
                           !.lookbehind = <<>>, !.state = "HEADER_FIELD_START"]
           ELSE [w EXCEPT !.flags = @ \ {"PART_BOUNDARY"}, !.index = 0]
       ELSE IF "LAST_BOUNDARY" \in w.flags THEN
           IF c = HYPHEN
           THEN [Callback(Callback(w, "part_end"), "end") EXCEPT !.state = "END"]
           ELSE [w EXCEPT !.index = 0]
       ELSE w

\* The decoder takes byte c.
RECURSIVE Feed(_, _)
Feed(w, c) ==
    CASE w.state = "START" ->
            IF c = CR \/ c = LF THEN w
            ELSE Feed([w EXCEPT !.state = "START_BOUNDARY", !.index = 0], c)
      [] w.state = "START_BOUNDARY" ->
            IF w.index = Len(w.boundary) - 2 THEN
                IF c # CR THEN Fail(w) ELSE [w EXCEPT !.index = @ + 1]
            ELSE IF w.index = Len(w.boundary) - 1 THEN
                IF c # LF THEN Fail(w)
                ELSE Callback([w EXCEPT !.index = 0,
                                        !.state = "HEADER_FIELD_START"],
                              "part_begin")
            ELSE IF c # w.boundary[w.index + 3] THEN Fail(w)
            ELSE [w EXCEPT !.index = @ + 1]
      [] w.state = "HEADER_FIELD_START" ->
            Feed([SetMark(w, "header_field") EXCEPT !.index = 0,
                                                    !.state = "HEADER_FIELD"], c)
      [] w.state = "HEADER_FIELD" ->
            IF c = CR THEN
                \* a blank line ends the headers; a line without ":" is malformed
                IF w.index = 0
                THEN [DeleteMark(w) EXCEPT !.state = "HEADERS_ALMOST_DONE"]
                ELSE Fail(w)
            ELSE IF c = HYPHEN THEN [w EXCEPT !.index = @ + 1]
            ELSE IF c = COLON THEN
                IF w.index = 0 THEN Fail(w)
                ELSE [DataCallback(w, "header_field")
                        EXCEPT !.index = @ + 1, !.state = "HEADER_VALUE_START"]
            ELSE IF LowerChar(c) \notin LowerLetters THEN Fail(w)
            ELSE [w EXCEPT !.index = @ + 1]
      [] w.state = "HEADER_VALUE_START" ->
            IF c = SPACE THEN w
            ELSE Feed([SetMark(w, "header_value") EXCEPT !.state = "HEADER_VALUE"], c)
      [] w.state = "HEADER_VALUE" ->
            IF c = CR
            THEN [Callback(DataCallback(w, "header_value"), "header_end")
                    EXCEPT !.state = "HEADER_VALUE_ALMOST_DONE"]
            ELSE w
      [] w.state = "HEADER_VALUE_ALMOST_DONE" ->
            IF c # LF THEN Fail(w) ELSE [w EXCEPT !.state = "HEADER_FIELD_START"]
      [] w.state = "HEADERS_ALMOST_DONE" ->
            IF c # LF THEN Fail(w)
            ELSE [Callback(w, "headers_finished") EXCEPT !.state = "PART_DATA_START"]
      [] w.state = "PART_DATA_START" ->
            Feed([SetMark(w, "part_data") EXCEPT !.state = "PART_DATA"], c)
      [] w.state = "PART_DATA" ->
            LET n == PartDataByte(w, c)
            IN IF n.state # "PART_DATA" THEN n
               ELSE IF n.index > 0
               THEN [n EXCEPT !.lookbehind = SubSeq(@, 1, n.index - 1) \o <<c>>]
               ELSE IF w.index > 0
               THEN \* no boundary after all: the bytes held back are data, and
                    \* c is looked at again
                    Feed(SetMark(CallbackData([n EXCEPT !.lookbehind = <<>>],
                                              "part_data", w.lookbehind),
                                 "part_data"), c)
               ELSE n
      [] OTHER -> w  \* END: the byte is consumed

\* The decoder takes byte c and moves past it: a byte under a mark is
\* collected.
Step(w, c) ==
    LET n == Feed(w, c)
    IN IF ~n.error /\ n.mark # NoMark THEN [n EXCEPT !.acc = Append(@, c)] ELSE n

\* The decoder takes the bytes chunk[lo..hi] in order, and none once it has
\* raised.
RECURSIVE FeedRange(_, _, _, _)
FeedRange(w, chunk, lo, hi) ==
    IF lo > hi \/ w.error THEN w
    ELSE IF lo = hi THEN Step(w, chunk[lo])
    ELSE LET mid == (lo + hi) \div 2
         IN FeedRange(FeedRange(w, chunk, lo, mid), chunk, mid + 1, hi)

\* parser.write(chunk)
write(w, chunk) ==
    LET n == FeedRange(w, chunk, 1, Len(chunk))
    IN IF n.error THEN n ELSE DataCallbackRemaining(n)

\* parser.finalize(): closing the decoder before the terminal boundary is a
\* decode error
finalize(w) == IF w.state = "END" THEN w ELSE Fail(w)

\* ------------------------------------------------- MultiPartParser.parse

\* b"content-disposition"
ContentDispositionName ==
    <<"c", "o", "n", "t", "e", "n", "t", "-", "d", "i", "s", "p", "o", "s",
      "i", "t", "i", "o", "n">>

\* b"name"
NameKey == <<"n", "a", "m", "e">>

\* b"charset"
CharsetKey == <<"c", "h", "a", "r", "s", "e", "t">>

\* b"boundary"
BoundaryKey == <<"b", "o", "u", "n", "d", "a", "r", "y">>

\* b"utf-8"
Utf8 == <<"u", "t", "f", "-", "8">>

\* b"multipart/form-data"
MultipartFormData ==
    <<"m", "u", "l", "t", "i", "p", "a", "r", "t", "/", "f", "o", "r", "m",
      "-", "d", "a", "t", "a">>

\* "Content-Type", as Headers compares names
ContentTypeName ==
    <<"c", "o", "n", "t", "e", "n", "t", "-", "t", "y", "p", "e">>

\* A str of the given characters, told from the bytes it was decoded from.
Str(chars) == [str |-> chars]

\* starlette's _user_safe_decode(src, codec); the bytes of the model are
\* ASCII, which every codec decodes to the same characters
user_safe_decode(src, codec) == Str(src)

\* bytes.decode("latin-1")
DecodeLatin1(b) == Str(b)

\* The locals of parse as it starts to read the stream.
ParseLocals ==
    [header_field |-> <<>>, header_value |-> <<>>, content_disposition |-> None,
     field_name |-> Str(<<>>), data |-> <<>>, items |-> <<>>, headers |-> <<>>,
     raised |-> ""]

\* Without "headers = []": the headers of the part before are kept.
PartBegin_KeepsHeaders(a) ==
    [a EXCEPT !.content_disposition = None, !.data = <<>>]

\* MultiPartMessage.PART_BEGIN
PartBegin(a) ==
    [a EXCEPT !.content_disposition = None, !.data = <<>>, !.headers = <<>>]

\* HEADER_FIELD with "=" for "+=": the fragment replaces the name so far.
HeaderField_Overwrite(a, message_bytes) ==
    [a EXCEPT !.header_field = message_bytes]

\* MultiPartMessage.HEADER_FIELD
HeaderField(a, message_bytes) ==
    [a EXCEPT !.header_field = @ \o message_bytes]

\* MultiPartMessage.HEADER_VALUE
HeaderValue(a, message_bytes) ==
    [a EXCEPT !.header_value = @ \o message_bytes]

\* Without the else: a content-disposition header is listed like any other.
HeaderEnd_AlsoListed(a) ==
    LET field == Lower(a.header_field)
    IN [(IF field = ContentDispositionName
         THEN [a EXCEPT !.content_disposition = a.header_value,
                        !.headers = Append(@, <<field, a.header_value>>)]
         ELSE [a EXCEPT !.headers = Append(@, <<field, a.header_value>>)])
        EXCEPT !.header_field = <<>>, !.header_value = <<>>]

\* Without the two resets: the name and the value stay in their buffers.
HeaderEnd_NoReset(a) ==
    LET field == Lower(a.header_field)
    IN IF field = ContentDispositionName
       THEN [a EXCEPT !.content_disposition = a.header_value]
       ELSE [a EXCEPT !.headers = Append(@, <<field, a.header_value>>)]

\* MultiPartMessage.HEADER_END
HeaderEnd(a) ==
    LET field == Lower(a.header_field)
    IN [(IF field = ContentDispositionName
         THEN [a EXCEPT !.content_disposition = a.header_value]
         ELSE [a EXCEPT !.headers = Append(@, <<field, a.header_value>>)])
        EXCEPT !.header_field = <<>>, !.header_value = <<>>]

\* MultiPartMessage.HEADERS_FINISHED; options[b"name"] raises KeyError when
\* the options have no name
HeadersFinished(a, charset) ==
    LET options == parse_options_header(a.content_disposition)[2]
    IN IF DictHas(options, NameKey)
       THEN [a EXCEPT !.field_name =
                user_safe_decode(DictGet(options, NameKey), charset)]
       ELSE [a EXCEPT !.raised = "KeyError"]

\* PART_DATA with "=" for "+=": the fragment replaces the data so far.
PartData_Overwrite(a, message_bytes) == [a EXCEPT !.data = message_bytes]

\* MultiPartMessage.PART_DATA
PartData(a, message_bytes) == [a EXCEPT !.data = @ \o message_bytes]

\* MultiPartMessage.PART_END
PartEnd(a) == [a EXCEPT !.items = Append(@, <<a.field_name, a.headers, a.data>>)]

\* One message of the loop over the messages of a chunk.
HandleMessage(a, message, charset) ==
    LET message_type == message[1]
        message_bytes == message[2]
    IN CASE message_type = "PART_BEGIN" -> PartBegin(a)
         [] message_type = "HEADER_FIELD" -> HeaderField(a, message_bytes)
         [] message_type = "HEADER_VALUE" -> HeaderValue(a, message_bytes)
         [] message_type = "HEADER_END" -> HeaderEnd(a)
         [] message_type = "HEADERS_FINISHED" -> HeadersFinished(a, charset)
         [] message_type = "PART_DATA" -> PartData(a, message_bytes)
         [] message_type = "PART_END" -> PartEnd(a)
         [] OTHER -> a

\* for message_type, message_bytes in messages: ..., for the messages
\* msgs[lo..hi], left when a message raises
RECURSIVE HandleRange(_, _, _, _, _)
HandleRange(a, msgs, lo, hi, charset) ==
    IF lo > hi \/ a.raised # "" THEN a
    ELSE IF lo = hi THEN HandleMessage(a, msgs[lo], charset)
    ELSE LET mid == (lo + hi) \div 2
         IN HandleRange(HandleRange(a, msgs, lo, mid, charset), msgs, mid + 1, hi,
                        charset)

HandleMessages(a, msgs, charset) == HandleRange(a, msgs, 1, Len(msgs), charset)

\* ------------------------------------------------------------ the inputs

\* The boundary of the bodies.
Boundary == <<"X", "Y">>

\* Content-Type values of the parent request
CtMultipart ==
    <<"m", "u", "l", "t", "i", "p", "a", "r", "t", "/", "f", "o", "r", "m",
      "-", "d", "a", "t", "a", ";", " ", "b", "o", "u", "n", "d", "a",
      "r", "y", "=", "X", "Y">>

CtMultipartCharset ==
    <<"m", "u", "l", "t", "i", "p", "a", "r", "t", "/", "f", "o", "r", "m",
      "-", "d", "a", "t", "a", ";", " ", "c", "h", "a", "r", "s", "e",
      "t", "=", "l", "a", "t", "i", "n", "-", "1", ";", " ", "b", "o",
      "u", "n", "d", "a", "r", "y", "=", QUOTE, "X", "Y", QUOTE>>

CtNoBoundary ==
    <<"m", "u", "l", "t", "i", "p", "a", "r", "t", "/", "f", "o", "r", "m",
      "-", "d", "a", "t", "a">>

CtPlain == <<"t", "e", "x", "t", "/", "p", "l", "a", "i", "n">>

\* Names and values of other headers of the parent request
AcceptName == <<"a", "c", "c", "e", "p", "t">>

HostName == <<"h", "o", "s", "t">>

ValueOne == <<"1">>

ValueTwo == <<"2">>

\* scope["headers"] of the parent request: with and without a Content-Type,
\* a boundary and a header name that occurs twice.
ParentHeaders ==
    { <<(<<ContentTypeName, CtMultipart>>)>>,
      <<(<<AcceptName, ValueOne>>), (<<ContentTypeName, CtMultipartCharset>>),
        (<<HostName, ValueOne>>), (<<AcceptName, ValueTwo>>)>>,
      <<(<<ContentTypeName, CtNoBoundary>>)>>,
      <<(<<ContentTypeName, CtPlain>>)>>,
      <<(<<HostName, ValueOne>>)>> }

\* The header blocks of the parts
HdrNameA ==
    <<"C", "o", "n", "t", "e", "n", "t", "-", "D", "i", "s", "p", "o", "s",
      "i", "t", "i", "o", "n", ":", " ", "f", "o", "r", "m", "-", "d",
      "a", "t", "a", ";", " ", "n", "a", "m", "e", "=", QUOTE, "a",
      QUOTE, CR, LF>>

HdrNameB ==
    <<"h", "o", "s", "t", ":", " ", "h", CR, LF, "c", "o", "n", "t", "e",
      "n", "t", "-", "d", "i", "s", "p", "o", "s", "i", "t", "i", "o",
      "n", ":", " ", "f", "o", "r", "m", "-", "d", "a", "t", "a", ";",
      " ", "n", "a", "m", "e", "=", "b", CR, LF, "C", "o", "n", "t",
      "e", "n", "t", "-", "T", "y", "p", "e", ":", " ", "t", CR, LF>>

HdrNameA2 ==
    <<"A", "c", "c", "e", "p", "t", ":", " ", "3", CR, LF, "C", "O", "N",
      "T", "E", "N", "T", "-", "D", "I", "S", "P", "O", "S", "I", "T",
      "I", "O", "N", ":", " ", "x", ";", "n", "a", "m", "e", "=",
      QUOTE, "a", QUOTE, CR, LF>>

HdrNoName ==
    <<"C", "o", "n", "t", "e", "n", "t", "-", "D", "i", "s", "p", "o", "s",
      "i", "t", "i", "o", "n", ":", " ", "f", "o", "r", "m", "-", "d",
      "a", "t", "a", CR, LF>>

HdrNoDisposition == <<"A", "c", "c", "e", "p", "t", ":", " ", "3", CR, LF>>

HdrMalformed ==
    <<"C", "o", "n", "t", "e", "n", "t", "-", "D", "i", "s", "p", "o", "s",
      "i", "t", "i", "o", "n", CR, LF>>

\* The payloads of the parts
PayloadHi == <<"h", "i">>

\* A payload that holds the start of a boundary line.
PayloadTricky == <<"1", CR, LF, "-", "-", "X", CR, "2">>

PayloadEmpty == <<>>

\* The field names of the parts
NameA == <<"a">>

NameB == <<"b">>

\* The kinds of part a body is made of: the bytes of its header block, its
\* payload, and the field name its content-disposition header gives (None
\* when it gives none, or the block is malformed).
PartKinds ==
    { [hdr |-> HdrNameA, payload |-> PayloadHi, name |-> NameA, ok |-> TRUE],
      [hdr |-> HdrNameB, payload |-> PayloadTricky, name |-> NameB, ok |-> TRUE],
      [hdr |-> HdrNameA2, payload |-> PayloadEmpty, name |-> NameA, ok |-> TRUE],
      [hdr |-> HdrNoName, payload |-> PayloadHi, name |-> None, ok |-> TRUE],
      [hdr |-> HdrNoDisposition, payload |-> PayloadHi, name |-> None, ok |-> TRUE],
      [hdr |-> HdrMalformed, payload |-> PayloadHi, name |-> None, ok |-> FALSE] }

\* The delimiter line of a boundary.
Delimiter == <<HYPHEN, HYPHEN>> \o Boundary

\* The bytes of one part: its delimiter line, header block, blank line and
\* payload, and the CRLF that ends the payload.
PartBytes(part) ==
    Delimiter \o <<CR, LF>> \o part.hdr \o <<CR, LF>> \o part.payload \o <<CR, LF>>

\* The body made of the given parts, closed by the terminal boundary.
RECURSIVE Body(_)
Body(ps) ==
    IF ps = <<>> THEN Delimiter \o <<HYPHEN, HYPHEN, CR, LF>>
    ELSE PartBytes(ps[1]) \o Body(Tail(ps))

\* The sequences of 1..n elements of S.
RECURSIVE SeqsUpTo(_, _)
SeqsUpTo(S, n) ==
    IF n = 0 THEN {}
    ELSE LET shorter == SeqsUpTo(S, n - 1)
         IN {<<e>> : e \in S} \cup shorter
              \cup {Append(q, e) : q \in shorter, e \in S}

\* The bodies of the responses handed to the merger.
BodyAbc == <<"a", "b", "c">>

BodyDef == <<"d", LF, "e", "f">>

ResponseBodies == {BodyAbc, BodyDef, <<>>}

\* --------------------------------------------------------------- the state

VARIABLES
    request,             \* the parent request: its scope
    request_form,        \* request._form: whether it is set, and its value
    parts,               \* the parts the body was made of
    stream,              \* the bytes request.stream() delivers
    delivered,           \* how many of them parse has been given
    pc,                  \* where populate_multipart_requests is
    exc,                 \* the exception it raised, "" when none
    parser,              \* parse's multipart.MultipartParser
    messages,            \* self.messages
    charset,             \* parse's charset
    header_field,        \* the locals of parse
    header_value,
    content_disposition,
    field_name,
    data,
    items,
    headers,
    reqs,                \* populate_multipart_requests's reqs, empty before it is made
    built,               \* how many items of form its loop has handled
    merged,              \* the call of concat_to_multipart_responses
    heap,                \* the mutable objects scope entries refer to
    decodes,             \* two calls of parse that run side by side
    queues,              \* the messages lists of their MultiPartParser instances
    artifact,            \* a ModelArtifact instance: its metadata
    files,               \* the files written so far, and their contents
    saving,              \* the call of save on the artifact
    loading,             \* the call of load on the artifact
    environ,             \* os.environ
    expanding,           \* the call of expand_env_var
    last_call            \* the last setter of a mode called, and its argument

locals ==
    <<header_field, header_value, content_disposition, field_name, data, items,
      headers>>

\* The state of the other modules of the program, and of the two decodes
\* that run side by side.
others ==
    <<decodes, queues, artifact, files, saving, loading, environ, expanding,
      last_call>>

vars ==
    <<request, request_form, parts, stream, delivered, pc, exc, parser,
      messages, charset, locals, reqs, built, merged, heap, others>>

\* The locals of parse as one record.
Locals ==
    [header_field |-> header_field, header_value |-> header_value,
     content_disposition |-> content_disposition, field_name |-> field_name,
     data |-> data, items |-> items, headers |-> headers, raised |-> ""]

SetLocals(a) ==
    /\ header_field' = a.header_field
    /\ header_value' = a.header_value
    /\ content_disposition' = a.content_disposition
    /\ field_name' = a.field_name
    /\ data' = a.data
    /\ items' = a.items
    /\ headers' = a.headers

NoForm == [set |-> FALSE, value |-> <<>>]

NotMerged == [called |-> FALSE, responses |-> <<>>, received |-> <<>>]

\* The scope of the parent request: its headers, and under "state" a dict
\* object, held by reference.
Scope(h) == [type |-> "http", headers |-> h, state |-> "state_dict"]

\* The objects scope entries refer to: the dict under "state", empty.
Heap == [ref \in {"state_dict"} |-> <<>>]

\* No two decodes run side by side.
DecodesIdle == decodes = <<>> /\ queues = <<>>

\* No artifact is in use.
ArtifactIdle == artifact = <<>> /\ files = <<>> /\ saving = <<>> /\ loading = <<>>

\* The configuration is not in use.
ConfigurationIdle == environ = <<>> /\ expanding = <<>> /\ last_call = <<>>

\* The other modules of the program are not in use.
OthersIdle == DecodesIdle /\ ArtifactIdle /\ ConfigurationIdle

Init ==
    /\ request \in {[scope |-> Scope(h)] : h \in ParentHeaders}
    /\ heap = Heap
    /\ OthersIdle
    /\ request_form = NoForm
    /\ parts \in SeqsUpTo(PartKinds, MaxParts)
    /\ stream = Body(parts)
    /\ delivered = 0
    /\ pc = "start"
    /\ exc = ""
    /\ parser = None
    /\ messages = <<>>
    /\ charset = None
    /\ header_field = ParseLocals.header_field
    /\ header_value = ParseLocals.header_value
    /\ content_disposition = ParseLocals.content_disposition
    /\ field_name = ParseLocals.field_name
    /\ data = ParseLocals.data
    /\ items = ParseLocals.items
    /\ headers = ParseLocals.headers
    /\ reqs = <<>>
    /\ built = 0
    /\ merged = NotMerged

\* No request is being split.
FormIdle ==
    /\ request = [scope |-> Scope(<<>>)]
    /\ heap = Heap
    /\ request_form = NoForm
    /\ parts = <<>>
    /\ stream = <<>>
    /\ delivered = 0
    /\ pc = "idle"
    /\ exc = ""
    /\ parser = None
    /\ messages = <<>>
    /\ charset = None
    /\ header_field = ParseLocals.header_field
    /\ header_value = ParseLocals.header_value
    /\ content_disposition = ParseLocals.content_disposition
    /\ field_name = ParseLocals.field_name
    /\ data = ParseLocals.data
    /\ items = ParseLocals.items
    /\ headers = ParseLocals.headers
    /\ reqs = <<>>
    /\ built = 0
    /\ merged = NotMerged

\* The variables of the splitting of a request.
form_vars ==
    <<request, request_form, parts, stream, delivered, pc, exc, parser,
      messages, charset, locals, reqs, built, merged, heap>>

\* ----------------------------------------------- populate_multipart_requests

\* request.headers.get(key): the value of the first header of that name,
\* None when there is none
RECURSIVE HeadersGet(_, _)
HeadersGet(raw, key) ==
    IF raw = <<>> THEN None
    ELSE IF raw[1][1] = key THEN raw[1][2]
    ELSE HeadersGet(Tail(raw), key)

\* params.get(key, default)
ParamsGet(params, key, default) ==
    IF DictHas(params, key) THEN DictGet(params, key) ELSE default

\* Without the except clause: the decoder's error leaves as it is.
RaisedFromParse_Same(error) == error

\* except multipart.MultipartParseError: raise BentoMLException(...)
RaisedFromParse(error) ==
    IF error = "MultipartParseError" THEN "BentoMLException" ELSE error

\* The call up to the first chunk: the assertion on the content type, then
\* parse up to its loop. The decoder cannot be made of no boundary: the
\* error it raises then is no MultipartParseError.
Populate ==
    /\ pc = "start"
    /\ LET content_type_header == HeadersGet(request.scope.headers, ContentTypeName)
           content_type == parse_options_header(content_type_header)[1]
           params == parse_options_header(content_type_header)[2]
           boundary == ParamsGet(params, BoundaryKey, None)
       IN IF content_type # MultipartFormData
          THEN /\ pc' = "raised"
               /\ exc' = "AssertionError"
               /\ UNCHANGED <<parser, charset>>
          ELSE IF boundary = None
          THEN /\ pc' = "raised"
               /\ exc' = RaisedFromParse("TypeError")
               /\ charset' = DecodeLatin1(ParamsGet(params, CharsetKey, Utf8))
               /\ UNCHANGED parser
          ELSE /\ pc' = "parsing"
               /\ exc' = ""
               /\ charset' = DecodeLatin1(ParamsGet(params, CharsetKey, Utf8))
               /\ parser' = MultipartParser(boundary)
    /\ SetLocals(ParseLocals)
    /\ UNCHANGED <<others, heap, request, request_form, parts, stream, delivered, messages,
                   reqs, built, merged>>

\* The sizes of the next chunk: up to MaxChunk bytes, or the whole body at
\* once.
ChunkSizes ==
    {n \in 1..MaxChunk : delivered + n <= Len(stream)}
        \cup (IF delivered = 0 /\ stream # <<>> THEN {Len(stream)} ELSE {})

\* Without the clear: the messages handled stay in the queue.
MessagesClear_Keeps(msgs) == msgs

\* self.messages.clear()
MessagesClear(msgs) == <<>>

\* One turn of "async for chunk in self.stream": the decoder is given the
\* chunk, and the messages its callbacks queued are taken off the queue and
\* handled in order.
ParseChunk(n) ==
    /\ pc = "parsing"
    /\ LET chunk == SubSeq(stream, delivered + 1, delivered + n)
           w == write([parser EXCEPT !.messages = messages], chunk)
           a == HandleMessages(Locals, w.messages, charset)
       IN /\ parser' = [w EXCEPT !.messages = <<>>]
          /\ IF w.error
             THEN /\ pc' = "raised"
                  /\ exc' = RaisedFromParse("MultipartParseError")
                  /\ messages' = w.messages
                  /\ UNCHANGED locals
             ELSE /\ messages' = MessagesClear(w.messages)
                  /\ SetLocals(a)
                  /\ IF a.raised # ""
                     THEN pc' = "raised" /\ exc' = RaisedFromParse(a.raised)
                     ELSE UNCHANGED <<pc, exc>>
    /\ delivered' = delivered + n
    /\ UNCHANGED <<others, heap, request, request_form, parts, stream, charset, reqs, built,
                   merged>>

\* The form cached although finalize raised: what parse had decoded is kept.
EndOfStream_KeepsParts ==
    LET w == finalize(parser)
    IN /\ parser' = w
       /\ IF w.error
          THEN /\ pc' = "raised"
               /\ exc' = "BentoMLException"
               /\ request_form' = [set |-> TRUE, value |-> items]
               /\ UNCHANGED reqs
          ELSE /\ pc' = "build"
               /\ exc' = ""
               /\ request_form' = [set |-> TRUE, value |-> items]
               /\ reqs' = <<>>
       /\ UNCHANGED <<others, heap, request, parts, delivered, messages, charset, locals,
                      built, merged>>

\* Without "request._form = form": the form is not cached.
EndOfStream_NoForm ==
    LET w == finalize(parser)
    IN /\ parser' = w
       /\ IF w.error
          THEN pc' = "raised" /\ exc' = "BentoMLException"
          ELSE pc' = "build" /\ exc' = ""
       /\ reqs' = <<>>
       /\ UNCHANGED <<others, heap, request, request_form, parts, delivered, messages,
                      charset, locals, built, merged>>

\* The stream is exhausted: parser.finalize(), return items; then form, the
\* list parse returned, is cached on the request and reqs is the empty dict.
EndOfStream ==
    LET w == finalize(parser)
    IN /\ parser' = w
       /\ IF w.error
          THEN /\ pc' = "raised"
               /\ exc' = RaisedFromParse("MultipartParseError")
               /\ UNCHANGED <<request_form, reqs>>
          ELSE /\ pc' = "build"
               /\ exc' = ""
               /\ request_form' = [set |-> TRUE, value |-> items]
               /\ reqs' = <<>>
       /\ UNCHANGED <<others, heap, request, parts, delivered, messages, charset, locals,
                      built, merged>>

\* The stream ends after the last byte of the body.
StreamEnd ==
    /\ pc = "parsing"
    /\ delivered = Len(stream)
    /\ UNCHANGED stream
    /\ EndOfStream

\* The stream is closed before the last byte of the body: what it delivered
\* is all there is.
StreamClosedEarly ==
    /\ pc = "parsing"
    /\ delivered < Len(stream)
    /\ stream' = SubSeq(stream, 1, delivered)
    /\ EndOfStream

\* The headers of a sub-request: the parent's with the part's on top.
MergeHeaders(parent_headers, part_headers) ==
    DictUpdate(DictOf(parent_headers), DictOf(part_headers))

\* The sub-request of a part: a copy of the parent's scope with the merged
\* headers, and the part's data as its body.
SubRequest(scope, part_headers, part_data) ==
    [scope |-> [scope EXCEPT !.headers = MergeHeaders(scope.headers, part_headers)],
     body |-> part_data]

\* First write wins: a field name that has a sub-request keeps it.
SetReq_FirstWins(rs, name, req) ==
    IF DictHas(rs, name) THEN rs ELSE Append(rs, <<name, req>>)

\* reqs[field_name] = req
SetReq(rs, name, req) == DictSet(rs, name, req)

\* One turn of "for field_name, headers, data in form".
BuildSubRequest ==
    /\ pc = "build"
    /\ built < Len(items)
    /\ LET item == items[built + 1]
       IN reqs' = SetReq(reqs, item[1], SubRequest(request.scope, item[2], item[3]))
    /\ built' = built + 1
    /\ UNCHANGED <<others, heap, request, request_form, parts, stream, delivered, pc, exc,
                   parser, messages, charset, locals, merged>>

\* return reqs
Return ==
    /\ pc = "build"
    /\ built = Len(items)
    /\ pc' = "returned"
    /\ UNCHANGED <<others, heap, request, request_form, parts, stream, delivered, exc, parser,
                   messages, charset, locals, reqs, built, merged>>

\* ---------------------------------------------- concat_to_multipart_responses

\* io.BytesIO(): its bytes and its position
BytesIO == [buf |-> <<>>, pos |-> 0]

\* BytesIO.write(b): the bytes go in at the position, which moves past them
BytesIOWrite(io, b) ==
    [buf |-> SubSeq(io.buf, 1, io.pos) \o b \o From(io.buf, io.pos + Len(b)),
     pos |-> io.pos + Len(b)]

\* for _resp in [...]: resp.write(_resp.body)
RECURSIVE WriteBodies(_, _)
WriteBodies(io, responses) ==
    IF responses = <<>> THEN io
    ELSE WriteBodies(BytesIOWrite(io, responses[1][2]), Tail(responses))

\* Iterating a BytesIO: the lines from its position to its end.
RECURSIVE ReadLines(_)
ReadLines(io) ==
    IF io.pos >= Len(io.buf) THEN <<>>
    ELSE LET rest == From(io.buf, io.pos)
             nl == Find(rest, LF, 1)
             line == IF nl = 0 THEN rest ELSE SubSeq(rest, 1, nl)
         IN <<line>> \o ReadLines([io EXCEPT !.pos = @ + Len(line)])

RECURSIVE Flatten(_)
Flatten(chunks) ==
    IF chunks = <<>> THEN <<>> ELSE chunks[1] \o Flatten(Tail(chunks))

\* What a consumer of StreamingResponse(resp) receives: the chunks the
\* iteration of resp yields, one after the other.
ReceivedBody(resp) == Flatten(ReadLines(resp))

\* The lists of (name, response) pairs handed to the merger: the name is the
\* place in the list, the response its body.
ResponseLists ==
    {<<>>} \cup
    {[i \in 1..Len(q) |-> <<Str(<<i>>), q[i]>>] : q \in SeqsUpTo(ResponseBodies, MaxResponses)}

\* concat_to_multipart_responses(responses), and the reading of the body of
\* the response it returns.
ConcatResponses(responses) ==
    /\ pc = "returned"
    /\ ~merged.called
    /\ merged' = [called |-> TRUE, responses |-> responses,
                  received |-> ReceivedBody(WriteBodies(BytesIO, responses))]
    /\ UNCHANGED <<others, heap, request, request_form, parts, stream, delivered, pc, exc,
                   parser, messages, charset, locals, reqs, built>>

\* ------------------------------------------ the requests after the call

\* The header and the key a holder of a request writes into it.
MarkName == <<"x">>

MarkValue == <<"1">>

\* scope["headers"].append(...)
AppendMark(scope) == [scope EXCEPT !.headers = Append(@, <<MarkName, MarkValue>>)]

\* The call has returned and its caller has not gone on yet: it goes on with
\* the merge of responses, or with one write to one of the requests.
NotGoneOn == pc = "returned" /\ ~merged.called

\* The holder of a sub-request returned writes to its header list: the list
\* made by list(ori_headers.items()), the sub-request's own.
SubRequestHeadersWrite(i) ==
    /\ NotGoneOn
    /\ i \in 1..Len(reqs)
    /\ reqs' = [reqs EXCEPT ![i][2].scope = AppendMark(@)]
    /\ pc' = "written"
    /\ UNCHANGED <<others, heap, request, request_form, parts, stream, delivered, exc,
                   parser, messages, charset, locals, built, merged>>

\* The holder of a sub-request returned writes to the dict under "state" of
\* its scope: scope = dict(request.scope) has copied the reference to the dict,
\* and not the dict.
SubRequestStateWrite(i) ==
    /\ NotGoneOn
    /\ i \in 1..Len(reqs)
    /\ heap' = [heap EXCEPT ![reqs[i][2].scope.state] = DictSet(@, MarkName, MarkValue)]
    /\ pc' = "written"
    /\ UNCHANGED <<others, request, request_form, parts, stream, delivered, exc,
                   parser, messages, charset, locals, reqs, built, merged>>

\* The holder of the parent request writes to its header list.
ParentHeadersWrite ==
    /\ NotGoneOn
    /\ request' = [request EXCEPT !.scope = AppendMark(@)]
    /\ pc' = "written"
    /\ UNCHANGED <<others, heap, request_form, parts, stream, delivered, exc,
                   parser, messages, charset, locals, reqs, built, merged>>

\* The holder of the parent request writes to the dict under "state" of its
\* scope.
ParentStateWrite ==
    /\ NotGoneOn
    /\ heap' = [heap EXCEPT ![request.scope.state] = DictSet(@, MarkName, MarkValue)]
    /\ pc' = "written"
    /\ UNCHANGED <<others, request, request_form, parts, stream, delivered, exc,
                   parser, messages, charset, locals, reqs, built, merged>>

\* ------------------------------------------------------------ specification

Next ==
    \/ Populate
    \/ \E n \in ChunkSizes : ParseChunk(n)
    \/ StreamEnd
    \/ StreamClosedEarly
    \/ BuildSubRequest
    \/ Return
    \/ \E responses \in ResponseLists : ConcatResponses(responses)
    \/ \E i \in 1..MaxParts : SubRequestHeadersWrite(i)
    \/ \E i \in 1..MaxParts : SubRequestStateWrite(i)
    \/ ParentHeadersWrite
    \/ ParentStateWrite

Spec == Init /\ [][Next]_vars

\* ------------------------------------------------------------------ claims

\* The call has ended, or has its parse behind it.
Ended == pc \in {"raised", "build", "returned"}

\* parse got as far as its loop over the stream.
ParseRan == exc \notin {"AssertionError", "TypeError"}

\* The boundary parameter of the request's Content-Type.
RequestBoundary ==
    ParamsGet(parse_options_header(
                  HeadersGet(request.scope.headers, ContentTypeName))[2],
              BoundaryKey, None)

\* parse on a stream that delivers body as one single chunk: whether it
\* fails, and the items it returns when it does not.
ParseAtOnce(body) ==
    LET w == write(MultipartParser(RequestBoundary), body)
        a == IF w.error THEN ParseLocals
             ELSE HandleMessages(ParseLocals, w.messages, charset)
    IN [failed |-> w.error \/ a.raised # "" \/ finalize(w).error,
        items |-> a.items]

\* C1: however the bytes the stream delivered were split into chunks, parse
\* fails exactly when it fails on the same bytes given as one chunk, and
\* returns the same items when it does not fail.
C1_ChunkingInvariance ==
    (Ended /\ ParseRan) =>
        LET once == ParseAtOnce(stream)
        IN /\ (pc = "raised") = once.failed
           /\ (pc # "raised" => items = once.items)

\* A chunk has ended inside a header name, in a part that follows a decoded
\* part: the name so far is kept for the next chunk.
C1_Witness ==
    /\ pc = "parsing"
    /\ header_field # <<>>
    /\ items # <<>>
    /\ delivered < Len(stream)

\* The parts are well formed and no two have the same field name.
WellFormed(ps) ==
    /\ \A i \in 1..Len(ps) : ps[i].ok /\ ps[i].name # None
    /\ \A i, j \in 1..Len(ps) : ps[i].name = ps[j].name => i = j

\* C2: of a well-formed body of N parts with distinct field names, delivered
\* whole, parse returns N items in the order of the parts, each with the
\* field name and exactly the payload bytes of its part.
C2_WellFormedBodyItems ==
    (Ended /\ ParseRan /\ WellFormed(parts) /\ stream = Body(parts)) =>
        /\ pc # "raised"
        /\ Len(items) = Len(parts)
        /\ \A i \in 1..Len(parts) :
              /\ items[i][1] = Str(parts[i].name)
              /\ items[i][3] = parts[i].payload

\* Two parts, one with a payload that holds the start of a boundary line and
\* comes in several PartData events, have been returned.
C2_Witness ==
    /\ pc = "returned"
    /\ WellFormed(parts)
    /\ stream = Body(parts)
    /\ Len(parts) = 2
    /\ \E i \in 1..2 : parts[i].payload = PayloadTricky /\ items[i][3] = PayloadTricky

\* C3: when the stream ends, at the end of the body or before it, with the
\* decoder not in its END state, the call fails with BentoMLException, no
\* form is cached and no sub-request is built; and a call that got past
\* parse had the decoder in its END state.
C3_TruncatedBodyFails ==
    /\ [](pc \in {"build", "returned"} => parser.state = "END")
    /\ [][(pc = "parsing" /\ pc' # "parsing" /\ delivered' = delivered
             /\ parser.state # "END")
            => (pc' = "raised" /\ exc' = "BentoMLException"
                  /\ reqs' = <<>> /\ ~request_form'.set)]_vars

\* The stream was closed inside the data of a part, after a whole part had
\* been decoded, and finalize raised.
C3_Witness ==
    /\ pc = "raised"
    /\ exc = "BentoMLException"
    /\ parser.error
    /\ parser.state = "PART_DATA"
    /\ delivered = Len(stream)
    /\ items # <<>>
    /\ reqs = <<>>

\* Some part has a content-disposition header without a name, or none.
HasNameless(ps) == \E i \in 1..Len(ps) : ps[i].ok /\ ps[i].name = None

\* C4: a body with a part whose content-disposition header has no name, or
\* that has no such header, delivered whole, makes the call fail with
\* BentoMLException, with no sub-request built. (The statement of the claim:
\* the code raises KeyError.)
C4_MissingNameIsInvalidRequest ==
    (Ended /\ ParseRan /\ HasNameless(parts) /\ stream = Body(parts)) =>
        /\ pc = "raised"
        /\ exc = "BentoMLException"
        /\ reqs = <<>>

\* The Content-Type of the request is not multipart/form-data, or has no
\* boundary.
BadContentType ==
    LET content_type_header == HeadersGet(request.scope.headers, ContentTypeName)
    IN \/ parse_options_header(content_type_header)[1] # MultipartFormData
       \/ RequestBoundary = None

\* C5: with a Content-Type that is not multipart/form-data or has no
\* boundary, the call fails before any chunk is taken, with
\* BentoMLException. (The statement of the claim: the code raises
\* AssertionError, or the error of making a decoder of no boundary.)
C5_BadContentTypeIsInvalidRequest ==
    (BadContentType /\ pc # "start") =>
        /\ pc = "raised"
        /\ exc = "BentoMLException"
        /\ delivered = 0

\* The field names of the items.
FieldNames == {items[i][1] : i \in 1..Len(items)}

\* The place of the last item of the given field name.
LastIndex(name) ==
    CHOOSE i \in 1..Len(items) :
        /\ items[i][1] = name
        /\ \A j \in (i + 1)..Len(items) : items[j][1] # name

\* C6: the mapping returned has one entry for each field name among the
\* items and no other, and the body of the entry of a name is the data of the
\* last item of that name.
C6_LastWriteWins ==
    pc = "returned" =>
        /\ DictKeys(reqs) = FieldNames
        /\ Len(reqs) = Cardinality(FieldNames)
        /\ \A i \in 1..Len(reqs) : reqs[i][2].body = items[LastIndex(reqs[i][1])][3]

\* Two parts of one field name and different data were decoded, and one
\* sub-request returned.
C6_Witness ==
    /\ pc = "returned"
    /\ Len(items) = 2
    /\ items[1][1] = items[2][1]
    /\ items[1][3] # items[2][3]
    /\ Len(reqs) = 1

\* The (name, value) pairs of a list of headers.
Pairs(hs) == {hs[i] : i \in 1..Len(hs)}

\* C7: in each sub-request returned, every header of its part is there with
\* the part's value, every parent header whose name is not among the
\* part's is there with its parent value, and the body is the part's data.
\* (The statement of the claim: the code keeps one header of a parent name
\* that occurs twice.)
C7_HeadersLayered ==
    pc = "returned" =>
        \A i \in 1..Len(reqs) :
            LET item == items[LastIndex(reqs[i][1])]
                sub == reqs[i][2]
                part_names == {h[1] : h \in Pairs(item[2])}
            IN /\ Pairs(item[2]) \subseteq Pairs(sub.scope.headers)
               /\ \A h \in Pairs(request.scope.headers) :
                     h[1] \notin part_names => h \in Pairs(sub.scope.headers)
               /\ sub.body = item[3]

\* The bodies of the responses of a list, one after the other.
RECURSIVE BodiesOf(_)
BodiesOf(responses) ==
    IF responses = <<>> THEN <<>>
    ELSE responses[1][2] \o BodiesOf(Tail(responses))

\* C8: the bytes a consumer of the merged response receives are the bodies
\* of the responses, in the order of the list. (The statement of the claim:
\* the code hands over the BytesIO with its position at its end, and the
\* consumer receives nothing.)
C8_MergedBodyIsConcatenation ==
    merged.called => merged.received = BodiesOf(merged.responses)

\* C9: a call that has failed has cached no form on the request and has built
\* no sub-request, whatever parse had decoded by then.
C9_AllOrNothing ==
    pc = "raised" => (~request_form.set /\ reqs = <<>> /\ built = 0)

\* The call failed after a whole part had been decoded.
C9_Witness ==
    /\ pc = "raised"
    /\ items # <<>>
    /\ ~request_form.set

\* C10: once parse has returned, request._form is the list of all the items
\* parse decoded, in order; it is set in one step, from unset, with no
\* sub-request built yet, and never changes after.
C10_FormCachedOnce ==
    /\ [](pc \in {"build", "returned"} =>
            /\ request_form = [set |-> TRUE, value |-> items]
            /\ Len(request_form.value) >= Len(reqs))
    /\ [](built > 0 => request_form.set)
    /\ [][request_form' # request_form =>
            /\ ~request_form.set
            /\ request_form'.set
            /\ built = 0 /\ built' = 0
            /\ reqs' = <<>>]_vars

\* The form holds both parts of one field name, and one sub-request was
\* returned.
C10_Witness ==
    /\ pc = "returned"
    /\ Len(request_form.value) = 2
    /\ request_form.value[1][1] = request_form.value[2][1]
    /\ Len(reqs) = 1

\* What is reachable from a scope: its entries, with the dict under "state"
\* in place of the reference to it.
Reachable(scope, h) == [scope EXCEPT !.state = h[scope.state]]

\* C11: a write to a mutable value reachable from the scope of a sub-request
\* returned, or of the parent request, changes what is reachable from that
\* one scope and from no other. (The statement of the claim: the code copies
\* the scope one level deep, and the dict under "state" is one object shared
\* by the parent and all sub-requests.)
C11_NoSharedMutableState ==
    [][pc' = "written" =>
          LET subs == {i \in 1..Len(reqs) :
                          Reachable(reqs[i][2].scope, heap)
                              # Reachable(reqs'[i][2].scope, heap')}
              parent == IF Reachable(request.scope, heap)
                             # Reachable(request'.scope, heap')
                        THEN {0} ELSE {}
          IN Cardinality(subs \cup parent) <= 1]_vars

\* The state of the assembler after the events of all the bytes delivered so
\* far, applied in the order the decoder emits them.
AppliedSoFar ==
    HandleMessages(ParseLocals,
                   write(MultipartParser(RequestBoundary),
                         SubSeq(stream, 1, delivered)).messages,
                   charset)

\* C14: every time parse awaits the next chunk its queue of events is empty,
\* and the state of the assembler is that of all the events of the chunks
\* before, each applied once, in the order the decoder emitted them.
C14_ChunksInOrder ==
    pc = "parsing" => (messages = <<>> /\ Locals = AppliedSoFar)

\* parse awaits a chunk inside the payload of the second part, with the
\* begin of the payload applied and the first part emitted.
C14_Witness ==
    /\ pc = "parsing"
    /\ Len(items) = 1
    /\ data # <<>>
    /\ parser.state = "PART_DATA"
    /\ delivered < Len(stream)

\* The headers of a header block as they are written in it, one (name, value)
\* pair for each line that has its CR: the name is what is before the colon,
\* the value what is after it and the spaces that follow it.
RECURSIVE HeaderLinesOf(_)
HeaderLinesOf(block) ==
    LET eol == Find(block, CR, 1)
        line == SubSeq(block, 1, eol - 1)
        colon == Find(line, COLON, 1)
    IN IF eol <= 1 THEN <<>>
       ELSE <<(<<SubSeq(line, 1, colon - 1), LStrip(From(line, colon))>>)>>
               \o HeaderLinesOf(From(block, eol + 1))

IsDisposition(h) == Lower(h[1]) = ContentDispositionName

\* The headers but content-disposition, of whatever letter case.
OtherHeaders(hs) == SelectSeq(hs, LAMBDA h : ~IsDisposition(h))

\* The headers with their names in lower case.
LowerNames(hs) == [i \in 1..Len(hs) |-> <<Lower(hs[i][1]), hs[i][2]>>]

\* The statement of C15 as the claim has it: the header list of an item holds
\* the headers of its part but content-disposition, each as the (name, value)
\* pair of the part. (The code puts the name in lower case.)
C15_HeadersAsWritten ==
    \A i \in 1..Len(items) :
        items[i][2] = OtherHeaders(HeaderLinesOf(parts[i].hdr))

\* C15: the header list of every item holds no content-disposition header,
\* of whatever letter case in the stream, and holds every other header of its
\* part once, in the order of the part, as the pair of its name in lower case
\* and its value.
C15_HeadersLowerCased ==
    \A i \in 1..Len(items) :
        /\ items[i][2] = LowerNames(OtherHeaders(HeaderLinesOf(parts[i].hdr)))
        /\ \A k \in 1..Len(items[i][2]) : ~IsDisposition(items[i][2][k])

\* An item of a part with a content-disposition header in upper case and
\* another header has been emitted.
C15_Witness ==
    \E i \in 1..Len(items) :
        /\ parts[i].hdr = HdrNameA2
        /\ Len(items[i][2]) = 1

\* The bytes delivered of the header block of the part being decoded.
RECURSIVE BlockStart(_, _)
BlockStart(ps, k) ==
    IF k = 0 THEN Len(Delimiter) + 2
    ELSE Len(PartBytes(ps[1])) + BlockStart(Tail(ps), k - 1)

BlockSoFar == SubSeq(stream, BlockStart(parts, Len(items)) + 1, delivered)

\* The header line being decoded: what follows the last LF delivered.
LineSoFar ==
    LET lfs == {i \in 1..delivered : stream[i] = LF}
        last == IF lfs = {} THEN 0 ELSE CHOOSE i \in lfs : \A j \in lfs : j <= i
    IN SubSeq(stream, last + 1, delivered)

\* The value of the last content-disposition header of a list, None when it
\* has none.
DispositionOf(hs) ==
    LET at == {i \in 1..Len(hs) : IsDisposition(hs[i])}
    IN IF at = {} THEN None ELSE hs[CHOOSE i \in at : \A j \in at : j <= i][2]

HeaderStates ==
    {"HEADER_FIELD_START", "HEADER_FIELD", "HEADER_VALUE_START", "HEADER_VALUE",
     "HEADER_VALUE_ALMOST_DONE", "HEADERS_ALMOST_DONE", "PART_DATA_START"}

\* C16: whenever parse awaits a chunk inside a header block, the name and the
\* value buffers hold the bytes delivered so far of the name and of the value
\* of the header line being decoded, however many fragments they came in, and
\* are empty when no line is being decoded; and what has been recorded is the
\* name and the value of every line ended so far, and of no other.
C16_HeaderBuffers ==
    (pc = "parsing" /\ parser.state \in HeaderStates) =>
        LET colon == Find(LineSoFar, COLON, 1)
            ended == HeaderLinesOf(BlockSoFar)
        IN /\ CASE parser.state = "HEADER_FIELD" ->
                     header_field = LineSoFar /\ header_value = <<>>
                 [] parser.state \in {"HEADER_VALUE_START", "HEADER_VALUE"} ->
                     /\ header_field = SubSeq(LineSoFar, 1, colon - 1)
                     /\ header_value = LStrip(From(LineSoFar, colon))
                 [] OTHER -> header_field = <<>> /\ header_value = <<>>
           /\ headers = LowerNames(OtherHeaders(ended))
           /\ content_disposition = DispositionOf(ended)

\* parse awaits a chunk inside the value of the third header of a part, with
\* the two headers before recorded and a part before emitted.
C16_Witness ==
    /\ pc = "parsing"
    /\ parser.state = "HEADER_VALUE"
    /\ header_value # <<>>
    /\ Len(headers) = 1
    /\ content_disposition # None
    /\ items # <<>>

\* C17: every item emitted has the field name of the content-disposition
\* header of its own part, the headers of its own part and the payload of its
\* own part, whatever the parts before it were and wherever the body fails
\* after it.
C17_NoLeakBetweenParts ==
    /\ Len(items) <= Len(parts)
    /\ \A i \in 1..Len(items) :
          items[i] = <<Str(parts[i].name),
                       LowerNames(OtherHeaders(HeaderLinesOf(parts[i].hdr))),
                       parts[i].payload>>

\* A part with headers and a payload was followed by a part of another name
\* with no other header and an empty payload, and both were emitted.
C17_Witness ==
    /\ Len(items) = 2
    /\ parts[1].hdr = HdrNameB
    /\ parts[2].hdr = HdrNameA
    /\ items[2][2] = <<>>

\* ------------------------------------------------ two decodes side by side

\* The bodies of the two requests: a well-formed part, a part without a field
\* name, and a malformed header block.
PartOf(hdr) == CHOOSE part \in PartKinds : part.hdr = hdr

TwoBodies ==
    { Body(<<PartOf(HdrNameA)>>),
      Body(<<PartOf(HdrNoName)>>),
      Body(<<PartOf(HdrMalformed)>>) }

\* One list for all instances: a messages list of the class.
MessagesOf_Shared(self) == 1

\* self.messages = []: each MultiPartParser instance has a list of its own
MessagesOf(self) == self

\* parse of instance self, up to its loop.
Decode(body) ==
    [stream |-> body, delivered |-> 0, pc |-> "parsing", exc |-> "",
     parser |-> MultipartParser(Boundary), charset |-> Str(Utf8),
     a |-> ParseLocals]

InitTwo ==
    /\ FormIdle
    /\ ArtifactIdle
    /\ ConfigurationIdle
    /\ decodes \in [1..2 -> {Decode(body) : body \in TwoBodies}]
    /\ queues = [q \in 1..2 |-> <<>>]

\* The sizes of the next chunk of a decode.
DecodeChunkSizes(d) ==
    {n \in 1..MaxChunk : d.delivered + n <= Len(d.stream)}
        \cup (IF d.delivered = 0 THEN {Len(d.stream)} ELSE {})

\* One turn of "async for chunk in self.stream" of instance self: between
\* two awaits no other decode runs.
DecodeChunk(self, n) ==
    /\ decodes[self].pc = "parsing"
    /\ LET d == decodes[self]
           q == MessagesOf(self)
           chunk == SubSeq(d.stream, d.delivered + 1, d.delivered + n)
           w == write([d.parser EXCEPT !.messages = queues[q]], chunk)
           a == HandleMessages(d.a, w.messages, d.charset)
           after == [d EXCEPT !.parser = [w EXCEPT !.messages = <<>>],
                              !.delivered = d.delivered + n]
       IN IF w.error
          THEN /\ decodes' = [decodes EXCEPT ![self] =
                                 [after EXCEPT !.pc = "raised",
                                               !.exc = "MultipartParseError"]]
               /\ queues' = [queues EXCEPT ![q] = w.messages]
          ELSE /\ decodes' = [decodes EXCEPT ![self] =
                                 [after EXCEPT !.a = a,
                                               !.pc = IF a.raised # "" THEN "raised" ELSE @,
                                               !.exc = a.raised]]
               /\ queues' = [queues EXCEPT ![q] = MessagesClear(w.messages)]
    /\ UNCHANGED <<form_vars, artifact, files, saving, loading, environ,
                   expanding, last_call>>

\* The stream of instance self is exhausted: parser.finalize(), return items.
DecodeEnd(self) ==
    /\ decodes[self].pc = "parsing"
    /\ decodes[self].delivered = Len(decodes[self].stream)
    /\ LET w == finalize(decodes[self].parser)
       IN decodes' = [decodes EXCEPT ![self] =
                        [@ EXCEPT !.parser = w,
                                  !.pc = IF w.error THEN "raised" ELSE "returned",
                                  !.exc = IF w.error THEN "MultipartParseError" ELSE ""]]
    /\ UNCHANGED <<form_vars, queues, artifact, files, saving, loading, environ,
                   expanding, last_call>>

NextTwo ==
    \/ \E self \in 1..2 : \E n \in DecodeChunkSizes(decodes[self]) : DecodeChunk(self, n)
    \/ \E self \in 1..2 : DecodeEnd(self)

SpecTwo == InitTwo /\ [][NextTwo]_vars

\* What parse returns of a body when it runs alone, on a stream that delivers
\* the body as one chunk: the exception it raises, and its items.
Alone(body) ==
    LET w == write(MultipartParser(Boundary), body)
        a == IF w.error THEN ParseLocals
             ELSE HandleMessages(ParseLocals, w.messages, Str(Utf8))
        raised == IF w.error THEN "MultipartParseError"
                  ELSE IF a.raised # "" THEN a.raised
                  ELSE IF finalize(w).error THEN "MultipartParseError"
                  ELSE ""
    IN [exc |-> raised, items |-> IF raised = "" THEN a.items ELSE <<>>]

\* What a decode has returned.
Outcome(d) == [exc |-> d.exc, items |-> IF d.pc = "returned" THEN d.a.items ELSE <<>>]

\* The state of the assembler after all the events of the bytes delivered to
\* a decode, and of no other event.
OwnEvents(d) ==
    HandleMessages(ParseLocals,
                   write(MultipartParser(Boundary),
                         SubSeq(d.stream, 1, d.delivered)).messages,
                   d.charset)

\* C12: of two decodes interleaved at their awaits, each with its own
\* instance, each returns the items, or raises the exception, of the decode of
\* its body alone; whenever a decode awaits its next chunk its queue is empty
\* and its assembler has applied the events of its own bytes and no other;
\* and the events a failed decode left in its queue are taken by nobody.
C12_IndependentDecodes ==
    /\ [](\A self \in 1..2 :
            LET d == decodes[self]
            IN /\ d.pc # "parsing" => Outcome(d) = Alone(d.stream)
               /\ d.pc = "parsing" =>
                     /\ queues[MessagesOf(self)] = <<>>
                     /\ d.a = OwnEvents(d))
    /\ [][\A self \in 1..2 :
             decodes[self].pc = "raised" =>
                 queues'[MessagesOf(self)] = queues[MessagesOf(self)]]_vars

\* The first decode has failed inside a chunk and left events in its queue,
\* and the second, which was inside the data of its part then, has returned
\* its item.
C12_Witness ==
    /\ decodes[1].pc = "raised"
    /\ queues[MessagesOf(1)] # <<>>
    /\ decodes[2].pc = "returned"
    /\ decodes[2].a.items # <<>>
    /\ decodes[2].delivered > decodes[1].delivered

\* ------------------------------------------------------------ ModelArtifact

\* The directories an artifact is saved to and loaded from; the second is a
\* directory named path.
DirModels == "models"

DirPath == "path"

MODEL_NAMESPACE == "bentoml_model"

YML_EXTENSION == ".yml"

PICKLE_EXTENSION == ".pkl"

\* os.path.join(path, f"{cls._MODEL_NAMESPACE}{ext}")
get_path(path, ext) == <<path, MODEL_NAMESPACE, ext>>

FilePaths == {get_path(path, ext) : path \in {DirModels, DirPath},
                                   ext \in {YML_EXTENSION, PICKLE_EXTENSION}}

NoFile == [missing |-> TRUE]

\* The metadata an artifact is made with: none, an empty dict, a dict.
Metadata == {None, <<>>, <<(<<"framework", "torch">>)>>}

\* bool(x) of a metadata value
Truthy(x) == x # None /\ x # <<>>

\* yaml.dump(data, file): the file holds the document of the data
YamlDump(fs, document, file) == [fs EXCEPT ![file] = [yaml |-> document]]

\* Without the dump: the wrapper goes on to the class's save.
DumpMetadata_Never(fs, self, path) == fs

\* if self.metadata: yaml.dump(self.metadata, Path(self.get_path(path, self.YML_EXTENSION)))
DumpMetadata(fs, self, path) ==
    IF Truthy(self.metadata)
    THEN YamlDump(fs, self.metadata, get_path(path, YML_EXTENSION))
    ELSE fs

\* The calls of save and of load: positional arguments and keyword arguments.
Calls ==
    { [args |-> <<DirModels>>, kw |-> <<>>],
      [args |-> <<DirPath>>, kw |-> <<>>],
      [args |-> <<>>, kw |-> <<(<<"path", DirModels>>)>>],
      [args |-> <<>>, kw |-> <<>>] }

NoCall == [pc |-> "idle", args |-> <<>>, kw |-> <<>>, exc |-> ""]

\* ModelArtifact(model, metadata), of the base class or of a subclass that
\* has a save and a load of its own.
InitArtifact ==
    /\ FormIdle
    /\ DecodesIdle
    /\ ConfigurationIdle
    /\ artifact \in [cls : {"ModelArtifact", "Subclass"}, model : {"model"},
                      metadata : Metadata]
    /\ files = [file \in FilePaths |-> NoFile]
    /\ saving = NoCall
    /\ loading = NoCall

not_artifact == <<form_vars, decodes, queues, environ, expanding, last_call>>

\* artifact.save(*args, **kw): wrapped_save up to its call of the class's
\* save.
wrapped_save(call) ==
    /\ saving.pc # "body"
    /\ IF call.args = <<>>
       THEN /\ saving' = [pc |-> "raised", args |-> call.args, kw |-> call.kw,
                          exc |-> "IndexError"]
            /\ UNCHANGED files
       ELSE /\ files' = DumpMetadata(files, artifact, call.args[1])
            /\ saving' = [pc |-> "body", args |-> call.args, kw |-> call.kw,
                          exc |-> ""]
    /\ UNCHANGED <<not_artifact, artifact, loading>>

\* inherited(*args, **kw): the save of the class, which raises in the base
\* class and writes the model under the path in the subclass.
save ==
    /\ saving.pc = "body"
    /\ IF artifact.cls = "ModelArtifact"
       THEN /\ saving' = [saving EXCEPT !.pc = "raised", !.exc = "NotImplementedError"]
            /\ UNCHANGED files
       ELSE /\ saving' = [saving EXCEPT !.pc = "returned"]
            /\ files' = [files EXCEPT ![get_path(saving.args[1], PICKLE_EXTENSION)] =
                                          [pickle |-> artifact.model]]
    /\ UNCHANGED <<not_artifact, artifact, loading>>

\* assert "path" in args
PathInArgs(args) == \E i \in 1..Len(args) : args[i] = "path"

\* artifact.load(*args, **kw): wrapped_load up to its call of the class's
\* load.
wrapped_load(call) ==
    /\ loading.pc # "body"
    /\ IF PathInArgs(call.args)
       THEN loading' = [pc |-> "body", args |-> call.args, kw |-> call.kw, exc |-> ""]
       ELSE loading' = [pc |-> "raised", args |-> call.args, kw |-> call.kw,
                        exc |-> "AssertionError"]
    /\ UNCHANGED <<not_artifact, artifact, files, saving>>

\* inherited(*args, **kw): the load of the class, which raises in the base
\* class and reads the model under the path in the subclass.
load ==
    /\ loading.pc = "body"
    /\ IF artifact.cls = "ModelArtifact"
       THEN loading' = [loading EXCEPT !.pc = "raised", !.exc = "NotImplementedError"]
       ELSE IF files[get_path(loading.args[1], PICKLE_EXTENSION)] = NoFile
       THEN loading' = [loading EXCEPT !.pc = "raised", !.exc = "FileNotFoundError"]
       ELSE loading' = [loading EXCEPT !.pc = "returned"]
    /\ UNCHANGED <<not_artifact, artifact, files, saving>>

NextArtifact ==
    \/ \E call \in Calls : wrapped_save(call)
    \/ save
    \/ \E call \in Calls : wrapped_load(call)
    \/ load

SpecArtifact == InitArtifact /\ [][NextArtifact]_vars

C18_LoadRequiresPositionalPath ==
    loading.pc # "idle" =>
        IF loading.args # <<>>
        THEN loading.exc # "AssertionError"
        ELSE loading.pc = "raised" /\ loading.exc = "AssertionError"

\* ------------------------------------------------------------ configuration

\* The longest string expand_env_var is followed to.
MaxLen == 6

DEBUG_ENV_VAR == <<"B", "E", "N", "T", "O", "M", "L", "_", "D", "E", "B", "U", "G">>

QUIET_ENV_VAR == <<"B", "E", "N", "T", "O", "M", "L", "_", "Q", "U", "I", "E", "T">>

GRPC_DEBUG_ENV_VAR ==
    <<"G", "R", "P", "C", "_", "V", "E", "R", "B", "O", "S", "I", "T", "Y">>

HomeName == <<"H", "O", "M", "E">>

VarA == <<"A">>

VarB == <<"B">>

DOLLAR == "$"

TILDE == "~"

SLASH == "/"

\* The names os.environ may hold; None is the value of a name that is unset.
EnvNames ==
    {DEBUG_ENV_VAR, QUIET_ENV_VAR, GRPC_DEBUG_ENV_VAR, HomeName, VarA, VarB}

\* The home directory of the user in the password database.
PwdHome == <<SLASH, "r">>

\* \w of the pattern of expandvars
WordChars ==
    (DOMAIN UpperToLower) \cup LowerLetters
        \cup {"0", "1", "2", "3", "4", "5", "6", "7", "8", "9", "_"}

\* The match of \$(\w+|\{[^}]*\}) at the "$" at place j of path: the name
\* and the place of its last character; last is 0 when there is no match.
VarMatch(path, j) ==
    IF j < Len(path) /\ path[j + 1] \in WordChars
    THEN LET rest == {k \in (j + 1)..Len(path) : path[k] \notin WordChars}
             last == IF rest = {} THEN Len(path)
                     ELSE (CHOOSE k \in rest : \A m \in rest : k <= m) - 1
         IN [name |-> SubSeq(path, j + 1, last), last |-> last]
    ELSE IF j < Len(path) /\ path[j + 1] = "{" /\ Find(path, "}", j + 2) # 0
    THEN LET close == Find(path, "}", j + 2)
         IN [name |-> SubSeq(path, j + 2, close - 1), last |-> close]
    ELSE [name |-> <<>>, last |-> 0]

\* The loop of os.path.expandvars from place i on: a name that is set is
\* replaced by its value and the search goes on after the value; a name that
\* is not set is left as it is.
RECURSIVE ExpandVarsFrom(_, _, _)
ExpandVarsFrom(path, i, env) ==
    LET j == Find(path, DOLLAR, i)
        m == VarMatch(path, j)
    IN IF j = 0 THEN path
       ELSE IF m.last = 0 THEN ExpandVarsFrom(path, j + 1, env)
       ELSE IF m.name \in DOMAIN env /\ env[m.name] # None
       THEN ExpandVarsFrom(SubSeq(path, 1, j - 1) \o env[m.name] \o From(path, m.last),
                           j + Len(env[m.name]), env)
       ELSE ExpandVarsFrom(path, m.last + 1, env)

\* os.path.expandvars(path)
expandvars(path, env) == ExpandVarsFrom(path, 1, env)

RECURSIVE RStripSlash(_)
RStripSlash(b) ==
    IF b # <<>> /\ b[Len(b)] = SLASH THEN RStripSlash(SubSeq(b, 1, Len(b) - 1)) ELSE b

\* os.path.expanduser(path): a leading "~" becomes the home directory, of
\* HOME or of the password database; "~name" of a user the database does not
\* know is left as it is.
expanduser(path, env) ==
    IF path = <<>> \/ path[1] # TILDE THEN path
    ELSE LET found == Find(path, SLASH, 2)
             i == IF found = 0 THEN Len(path) + 1 ELSE found
             userhome == IF env[HomeName] # None THEN env[HomeName] ELSE PwdHome
             expanded == RStripSlash(userhome) \o SubSeq(path, i, Len(path))
         IN IF i # 2 THEN path
            ELSE IF expanded = <<>> THEN <<SLASH>> ELSE expanded

\* os.path.expanduser(os.path.expandvars(str(env_var)))
Interpolate(env_var, env) == expanduser(expandvars(env_var, env), env)

\* str(enabled)
StrOfBool(enabled) ==
    IF enabled THEN <<"T", "r", "u", "e">> ELSE <<"F", "a", "l", "s", "e">>

LowerTrue == <<"t", "r", "u", "e">>

\* With the value compared as it is: "True" is not "true".
get_debug_mode_AsWritten(env) ==
    IF env[DEBUG_ENV_VAR] # None THEN env[DEBUG_ENV_VAR] = LowerTrue ELSE FALSE

\* get_debug_mode()
get_debug_mode(env) ==
    IF env[DEBUG_ENV_VAR] # None THEN Lower(env[DEBUG_ENV_VAR]) = LowerTrue ELSE FALSE

\* get_quiet_mode()
get_quiet_mode(env) ==
    IF env[QUIET_ENV_VAR] # None THEN Lower(env[QUIET_ENV_VAR]) = LowerTrue ELSE FALSE

\* The values of the variables when the program starts.
StartValues ==
    [n \in EnvNames |->
        CASE n = DEBUG_ENV_VAR -> {None, <<"T", "R", "U", "E">>}
          [] n = QUIET_ENV_VAR -> {None, <<"1">>}
          [] n = GRPC_DEBUG_ENV_VAR -> {None, <<"E", "R", "R", "O", "R">>}
          [] n = HomeName -> {None, <<SLASH, "h", SLASH>>}
          [] n = VarA -> {None, <<"x">>, <<DOLLAR, "B">>, <<"x", DOLLAR, "A">>}
          [] n = VarB -> {None, <<DOLLAR, "A">>, <<TILDE>>}]

\* The strings expand_env_var is called with.
ExpandInputs ==
    { <<DOLLAR, "A">>,
      <<DOLLAR, "{", "A", "}", SLASH, DOLLAR, "B">>,
      <<TILDE, SLASH, DOLLAR, "A", "x">>,
      <<TILDE, "u", DOLLAR>> }

\* No call of expand_env_var yet; seen holds the strings a call has had in
\* the turns of its loop before.
NotExpanding == [pc |-> "idle", env_var |-> <<>>, seen |-> {}]

NoSetterCalled ==
    [last |-> "none", debug_called |-> FALSE, debug_enabled |-> FALSE,
     quiet_called |-> FALSE, quiet_enabled |-> FALSE]

InitConfiguration ==
    /\ FormIdle
    /\ DecodesIdle
    /\ ArtifactIdle
    /\ environ \in [EnvNames -> UNION {StartValues[n] : n \in EnvNames}]
    /\ \A n \in EnvNames : environ[n] \in StartValues[n]
    /\ expanding = NotExpanding
    /\ last_call = NoSetterCalled

not_configuration == <<form_vars, decodes, queues, artifact, files, saving, loading>>

\* expand_env_var(env_var), up to its loop; the program has one thread, and
\* calls nothing else while the loop runs.
expand_env_var(env_var) ==
    /\ expanding.pc # "loop"
    /\ expanding' = [pc |-> "loop", env_var |-> env_var, seen |-> {}]
    /\ UNCHANGED <<not_configuration, environ, last_call>>

\* One turn of "while True" of expand_env_var; a string longer than MaxLen
\* is followed no further.
expand_env_var_loop ==
    /\ expanding.pc = "loop"
    /\ LET interpolated == Interpolate(expanding.env_var, environ)
       IN IF interpolated = expanding.env_var
          THEN expanding' = [expanding EXCEPT !.pc = "returned"]
          ELSE IF Len(interpolated) > MaxLen
          THEN expanding' = [pc |-> "beyond", env_var |-> <<>>, seen |-> {}]
          ELSE expanding' = [pc |-> "loop", env_var |-> interpolated,
                             seen |-> expanding.seen \cup {expanding.env_var}]
    /\ UNCHANGED <<not_configuration, environ, last_call>>

\* set_debug_mode(enabled)
set_debug_mode(enabled) ==
    /\ expanding.pc # "loop"
    /\ environ' = [environ EXCEPT ![DEBUG_ENV_VAR] = StrOfBool(enabled),
                                  ![GRPC_DEBUG_ENV_VAR] = <<"D", "E", "B", "U", "G">>]
    /\ last_call' = [last_call EXCEPT !.last = "set_debug_mode",
                                      !.debug_called = TRUE,
                                      !.debug_enabled = enabled]
    /\ UNCHANGED <<not_configuration, expanding>>

\* set_quiet_mode(enabled)
set_quiet_mode(enabled) ==
    /\ expanding.pc # "loop"
    /\ environ' = [environ EXCEPT ![QUIET_ENV_VAR] = StrOfBool(enabled),
                                  ![GRPC_DEBUG_ENV_VAR] = <<"N", "O", "N", "E">>]
    /\ last_call' = [last_call EXCEPT !.last = "set_quiet_mode",
                                      !.quiet_called = TRUE,
                                      !.quiet_enabled = enabled]
    /\ UNCHANGED <<not_configuration, expanding>>

NextConfiguration ==
    \/ \E env_var \in ExpandInputs : expand_env_var(env_var)
    \/ expand_env_var_loop
    \/ \E enabled \in BOOLEAN : set_debug_mode(enabled)
    \/ \E enabled \in BOOLEAN : set_quiet_mode(enabled)

SpecConfiguration == InitConfiguration /\ [][NextConfiguration]_vars

\* C19: every call of expand_env_var comes out of its loop, so that the loop,
\* whose next string is given by the string it has and the environment, never
\* has a string it had in a turn before; and the string returned is left as
\* it is by expandvars and expanduser, so that expanding it again returns it.
\* (The statement of the claim: with variables that refer to one another the
\* loop comes back to a string it had, and goes on for ever.)
C19_ExpandTerminates ==
    /\ expanding.pc = "loop" => expanding.env_var \notin expanding.seen
    /\ expanding.pc = "returned" =>
          Interpolate(expanding.env_var, environ) = expanding.env_var

\* C20: get_debug_mode() is the argument of the last call of set_debug_mode,
\* and False when there was none and the variable is unset; get_quiet_mode()
\* likewise; the gRPC verbosity is DEBUG after set_debug_mode and NONE after
\* set_quiet_mode, whatever the argument; and a step that changes the
\* variable of one mode is a call of the setter of that mode.
C20_ModesFollowLastSetter ==
    /\ [](/\ last_call.debug_called =>
               get_debug_mode(environ) = last_call.debug_enabled
          /\ (~last_call.debug_called /\ environ[DEBUG_ENV_VAR] = None) =>
               ~get_debug_mode(environ)
          /\ last_call.quiet_called =>
               get_quiet_mode(environ) = last_call.quiet_enabled
          /\ (~last_call.quiet_called /\ environ[QUIET_ENV_VAR] = None) =>
               ~get_quiet_mode(environ)
          /\ last_call.last = "set_debug_mode" =>
               environ[GRPC_DEBUG_ENV_VAR] = <<"D", "E", "B", "U", "G">>
          /\ last_call.last = "set_quiet_mode" =>
               environ[GRPC_DEBUG_ENV_VAR] = <<"N", "O", "N", "E">>)
    /\ [][/\ environ'[DEBUG_ENV_VAR] # environ[DEBUG_ENV_VAR] =>
               last_call'.last = "set_debug_mode"
          /\ environ'[QUIET_ENV_VAR] # environ[QUIET_ENV_VAR] =>
               last_call'.last = "set_quiet_mode"
          /\ last_call'.last = "set_debug_mode" =>
               get_quiet_mode(environ') = get_quiet_mode(environ)
          /\ last_call'.last = "set_quiet_mode" =>
               get_debug_mode(environ') = get_debug_mode(environ)]_vars

\* Debug mode was set on, then quiet mode off: debug mode is still on, quiet
\* mode is off, and the gRPC verbosity is NONE.
C20_Witness ==
    /\ last_call.last = "set_quiet_mode"
    /\ last_call.debug_called
    /\ get_debug_mode(environ)
    /\ ~last_call.quiet_enabled
    /\ environ[GRPC_DEBUG_ENV_VAR] = <<"N", "O", "N", "E">>

====
